---------------------------- MODULE Spec2Model ----------------------------
(***************************************************************************)
(* A model of the dead-lang transpiler core:                               *)
(*   - Lexer.cpp:     Lexer::lex and the tokenizer it drives;              *)
(*   - Statement.cpp: the evaluate() operations of the statement tree.     *)
(* Strings are sequences of one-character strings, offsets are 0-based as  *)
(* in the C++ (source[c + 1] is the character at offset c).                *)
(***************************************************************************)
EXTENDS Integers, Sequences, FiniteSets, TLC

VARIABLES
    source,      \* Iterator's buffer: the text given to Lexer::lex
    cursor,      \* Iterator's cursor: offset of the next character
    has_errors,  \* Supervisor::has_errors()
    tokens,      \* the vector `tokens` of Lexer::lex (its first MaxTokens elements)
    ret,         \* the token the last next_token() call returned
    pc,          \* position of Lexer::lex: "loop" (line 7), "call" (line 8), "done"
    node,        \* the Block or Module whose evaluate() is called
    output,      \* the string evaluate() returned
    rpc          \* "ready" before evaluate(), "done" after

vars == <<source, cursor, has_errors, tokens, ret, pc, node, output, rpc>>
lexVars == <<source, cursor, has_errors, tokens, ret, pc>>
renderVars == <<node, output, rpc>>

----------------------------------------------------------------------------
(* Bounds *)

\* longest enumerated source text
MaxLen == 3
\* how many elements of the token vector the model records
MaxTokens == 7

----------------------------------------------------------------------------
(* Characters *)

None == "none"   \* std::nullopt of peek() / peek_ahead()

Letters == {"a", "b", "f", "i", "m", "n", "o", "r", "t", "u"}
Digits == {"1", "2", "3"}

\* std::isalnum(ch) != 0 in the "C" locale, for the characters used here
isalnum(ch) == ch \in Letters \cup Digits

\* the characters the enumerated sources are built from
Alphabet ==
    {"(", ";", "*", "-", ">", "=", "+", "<", " ", "\n", "a", "_", "1", "@"}

\* "- -> --"
ScenarioS1 == <<"-", " ", "-", ">", " ", "-", "-">>

\* "= == < <= + +="
ScenarioS2 ==
    <<"=", " ", "=", "=", " ", "<", " ", "<", "=", " ", "+", " ", "+", "=">>

\* "mut foo_bar mutation"
ScenarioS3 ==
    <<"m", "u", "t", " ", "f", "o", "o", "_", "b", "a", "r", " ",
      "m", "u", "t", "a", "t", "i", "o", "n">>

\* "(){};,*": every single-character token
ScenarioPunct == <<"(", ")", "{", "}", ";", ",", "*">>

\* "f(a)->i32; ": single-character tokens, an operator, identifiers, a keyword
ScenarioMix == <<"f", "(", "a", ")", "-", ">", "i", "3", "2", ";", " ">>

Scenarios == {ScenarioS1, ScenarioS2, ScenarioS3, ScenarioPunct, ScenarioMix}

Sources == UNION {[1..n -> Alphabet] : n \in 0..MaxLen} \cup Scenarios

----------------------------------------------------------------------------
(* Token and Position *)

Token_create(type, lexeme, start, end) ==
    [type |-> type, lexeme |-> lexeme, start |-> start, end |-> end]

\* the value of `ret` before the first next_token call
NoToken == Token_create("NONE", <<>>, 0, 0)

\* Token::create_dumb
create_dumb == Token_create("END_OF_FILE", <<>>, 0, 0)

\* the keyword table
Keywords == {<<"m", "u", "t">>, <<"i", "3", "2">>}

KeywordType(value) == IF value = <<"m", "u", "t">> THEN "MUT" ELSE "I32"

\* Token::is_keyword
is_keyword(value) ==
    IF value \in Keywords THEN KeywordType(value) ELSE "IDENTIFIER"

----------------------------------------------------------------------------
(* Iterator *)

eof(c) == c >= Len(source)

peek(c) == IF c < Len(source) THEN source[c + 1] ELSE None

peek_ahead(c, k) == IF c + k < Len(source) THEN source[c + k + 1] ELSE None

advance(c, k) == c + k

----------------------------------------------------------------------------
(* Lexer: each lex_* operator takes the cursor and returns the token it    *)
(* creates together with the cursor it leaves.                             *)

Lexed(token, c) == [token |-> token, cursor |-> c]

RECURSIVE skip_whitespaces(_)
skip_whitespaces(c) ==
    IF eof(c) THEN c
    ELSE LET ch == peek(c)
         IN IF ch = " " \/ ch = "\t" \/ ch = "\r" \/ ch = "\n"
            THEN skip_whitespaces(advance(c, 1))
            ELSE c

\* the loop of lex_keyword_or_identifier: the cursor after the run
RECURSIVE identifier_run(_)
identifier_run(c) ==
    IF eof(c) THEN c
    ELSE LET ch == peek(c)
         IN IF isalnum(ch) \/ ch = "_"
            THEN identifier_run(advance(c, 1))
            ELSE c

\* the keyword lookup forgotten: every run is an IDENTIFIER
lex_keyword_or_identifier_no_lookup(c) ==
    LET cur == identifier_run(c)
    IN Lexed(Token_create("IDENTIFIER", SubSeq(source, c + 1, cur), c, cur), cur)

lex_keyword_or_identifier(c) ==
    LET start == c
        cur == identifier_run(c)
        value == SubSeq(source, start + 1, cur)
        keyword == is_keyword(value)
    IN IF keyword # "IDENTIFIER" /\ keyword # "END_OF_FILE"
       THEN Lexed(Token_create(keyword, value, start, cur), cur)
       ELSE Lexed(Token_create("IDENTIFIER", value, start, cur), cur)

\* the lookahead off by one: peek_ahead(2) where peek_ahead(1) is meant
lex_minus_lookahead_2(c) ==
    IF peek_ahead(c, 2) = ">"
    THEN Lexed(Token_create("ARROW", <<"-", ">">>, c, advance(c, 2)), advance(c, 2))
    ELSE IF peek_ahead(c, 2) = "-"
    THEN Lexed(Token_create("MINUS_MINUS", <<"-", "-">>, c, advance(c, 2)),
               advance(c, 2))
    ELSE Lexed(Token_create("MINUS", <<"-">>, c, advance(c, 1)), advance(c, 1))

lex_minus(c) ==
    LET start == c
    IN IF peek_ahead(c, 1) = ">"
       THEN Lexed(Token_create("ARROW", <<"-", ">">>, start, advance(c, 2)),
                  advance(c, 2))
       ELSE IF peek_ahead(c, 1) = "-"
       THEN Lexed(Token_create("MINUS_MINUS", <<"-", "-">>, start, advance(c, 2)),
                  advance(c, 2))
       ELSE Lexed(Token_create("MINUS", <<"-">>, start, advance(c, 1)),
                  advance(c, 1))

lex_equal_sign(c) ==
    LET start == c
    IN IF peek_ahead(c, 1) = "="
       THEN Lexed(Token_create("EQUAL_EQUAL", <<"=", "=">>, start, advance(c, 2)),
                  advance(c, 2))
       ELSE Lexed(Token_create("EQUAL", <<"=">>, start, advance(c, 1)),
                  advance(c, 1))

lex_star(c) ==
    LET start == c
    IN Lexed(Token_create("STAR", <<"*">>, start, advance(c, 1)), advance(c, 1))

lex_plus(c) ==
    LET start == c
    IN IF peek_ahead(c, 1) = "="
       THEN Lexed(Token_create("PLUS_EQUAL", <<"+", "=">>, start, advance(c, 2)),
                  advance(c, 2))
       ELSE Lexed(Token_create("PLUS", <<"+">>, start, advance(c, 1)),
                  advance(c, 1))

lex_less_than(c) ==
    LET start == c
    IN IF peek_ahead(c, 1) = "="
       THEN Lexed(Token_create("LESS_EQUAL", <<"<", "=">>, start, advance(c, 2)),
                  advance(c, 2))
       ELSE Lexed(Token_create("LESS", <<"<">>, start, advance(c, 1)),
                  advance(c, 1))

\* the position's end taken one past the cursor
lex_single_end_past_cursor(type, ch, c) ==
    LET cur == advance(c, 1)
    IN Lexed(Token_create(type, <<ch>>, cur, cur + 1), cur)

\* the cases of next_token's switch that advance and then take both ends of
\* the position from cursor()
lex_single(type, ch, c) ==
    LET cur == advance(c, 1)
    IN Lexed(Token_create(type, <<ch>>, cur, cur), cur)

\* lines 23-73 of next_token: skip the whitespace, then switch on peek()
next_token_switch(c) ==
    LET c1 == skip_whitespaces(c)
        ch == peek(c1)
    IN IF ch = None THEN Lexed(create_dumb, c1)
       ELSE CASE ch = "(" -> lex_single("LEFT_PAREN", "(", c1)
              [] ch = ")" -> lex_single("RIGHT_PAREN", ")", c1)
              [] ch = "-" -> lex_minus(c1)
              [] ch = "{" -> lex_single("LEFT_BRACE", "{", c1)
              [] ch = "}" -> lex_single("RIGHT_BRACE", "}", c1)
              [] ch = "=" -> lex_equal_sign(c1)
              [] ch = ";" -> lex_single("SEMICOLON", ";", c1)
              [] ch = "*" -> lex_star(c1)
              [] ch = "," -> lex_single("COMMA", ",", c1)
              [] ch = "+" -> lex_plus(c1)
              [] ch = "<" -> lex_less_than(c1)
              [] OTHER -> lex_keyword_or_identifier(c1)

\* next_token without the has_errors() test of line 21
next_token_no_error_test(c, errors) == next_token_switch(c)

\* Lexer::next_token, called with the cursor at c and the sink's flag
next_token(c, errors) ==
    IF errors THEN Lexed(create_dumb, c) ELSE next_token_switch(c)

\* the END_OF_FILE filter of line 9 forgotten
push_back_unfiltered(toks, token) ==
    IF Len(toks) < MaxTokens THEN Append(toks, token) ELSE toks

\* tokens.push_back(token) guarded by !token.matches(END_OF_FILE). Only the
\* first MaxTokens elements of the vector are recorded: a run that ends pushes
\* at most one token per character of its source, fewer than MaxTokens for
\* every source of Sources, so only a run that never ends is cut short.
push_back(toks, token) ==
    IF token.type # "END_OF_FILE" /\ Len(toks) < MaxTokens
    THEN Append(toks, token)
    ELSE toks

----------------------------------------------------------------------------
(* Lexer::lex as a state machine *)

LexInit ==
    /\ source \in Sources
    /\ cursor = 0
    /\ has_errors \in BOOLEAN
    /\ tokens = <<>>
    /\ ret = NoToken
    /\ pc = "loop"

\* line 7: while (!lexer.eof() && !supervisor->has_errors())
LoopTest ==
    /\ pc = "loop"
    /\ pc' = IF ~eof(cursor) /\ ~has_errors THEN "call" ELSE "done"
    /\ UNCHANGED <<source, cursor, has_errors, tokens, ret>>
    /\ UNCHANGED renderVars

\* lines 8-11: the call of next_token and the filtered push_back
NextTokenCall ==
    /\ pc = "call"
    /\ LET r == next_token(cursor, has_errors)
       IN /\ cursor' = r.cursor
          /\ ret' = r.token
          /\ tokens' = push_back(tokens, r.token)
    /\ pc' = "loop"
    /\ UNCHANGED <<source, has_errors>>
    /\ UNCHANGED renderVars

\* the Supervisor is shared (a shared_ptr): another holder reports an error
Report ==
    /\ pc # "done"
    /\ ~has_errors
    /\ has_errors' = TRUE
    /\ UNCHANGED <<source, cursor, tokens, ret, pc>>
    /\ UNCHANGED renderVars

RenderIdle ==
    /\ node = <<>>
    /\ output = <<>>
    /\ rpc = "idle"

Init == LexInit /\ RenderIdle

Next == LoopTest \/ NextTokenCall \/ Report

Spec == Init /\ [][Next]_vars

\* the lex loop is straight-line code: it keeps running while it can
FairSpec == Spec /\ WF_vars(LoopTest) /\ WF_vars(NextTokenCall)

----------------------------------------------------------------------------
(* Statement tree: one constructor per Statement subclass, holding the     *)
(* members its constructor stores.                                         *)

EmptyStatement == [kind |-> "Empty"]
BlockStatement(block) == [kind |-> "Block", m_block |-> block]
ModuleStatement(name, c_includes, structs, functions) ==
    [kind |-> "Module", m_name |-> name, m_c_includes |-> c_includes,
     m_structs |-> structs, m_functions |-> functions]
FunctionStatement(name, args, return_type, body) ==
    [kind |-> "Function", m_name |-> name, m_args |-> args,
     m_return_type |-> return_type, m_body |-> body]
IfStatement(condition, then_block, else_block) ==
    [kind |-> "If", m_condition |-> condition, m_then_block |-> then_block,
     m_else_block |-> else_block]
ReturnStatement(expression) == [kind |-> "Return", m_expression |-> expression]
VariableStatement(is_mutable, type, type_extensions, name, expression) ==
    [kind |-> "Variable", m_is_mutable |-> is_mutable, m_type |-> type,
     m_type_extensions |-> type_extensions, m_name |-> name,
     m_expression |-> expression]
PlusEqualStatement(name, expression) ==
    [kind |-> "PlusEqual", m_name |-> name, m_expression |-> expression]
WhileStatement(condition, body) ==
    [kind |-> "While", m_condition |-> condition, m_body |-> body]
ForStatement(init_statement, condition, increment_statement, body) ==
    [kind |-> "For", m_init_statement |-> init_statement,
     m_condition |-> condition, m_increment_statement |-> increment_statement,
     m_body |-> body]
ExpressionStatement(expression) ==
    [kind |-> "Expression", m_expression |-> expression]
IndexOperatorStatement(variable_name, index, expression) ==
    [kind |-> "IndexOperator", m_variable_name |-> variable_name,
     m_index |-> index, m_expression |-> expression]
FunctionCallStatement(name, args) ==
    [kind |-> "FunctionCall", m_name |-> name, m_args |-> args]
StructStatement(name, member_variables) ==
    [kind |-> "Struct", m_name |-> name, m_member_variables |-> member_variables]

----------------------------------------------------------------------------
(* Helpers of the renderer *)

\* std::string::substr(pos, count), for pos <= size()
substr(str, pos, count) ==
    SubSeq(str, pos + 1, IF pos + count < Len(str) THEN pos + count ELSE Len(str))

\* Typechecker::builtin_type_to_c_type
builtin_type_to_c_type(type) ==
    IF type = <<"i", "3", "2">> THEN <<"i", "n", "t", "3", "2", "_", "t">> ELSE type

\* dts::split_str
RECURSIVE split_str(_, _)
split_str(str, delimiter) ==
    IF str = <<>> THEN <<>>
    ELSE IF \A i \in 1..Len(str) : str[i] # delimiter THEN <<str>>
    ELSE LET i == CHOOSE k \in 1..Len(str) :
                     str[k] = delimiter /\ \A j \in 1..(k - 1) : str[j] # delimiter
         IN <<SubSeq(str, 1, i - 1)>> \o split_str(SubSeq(str, i + 1, Len(str)), delimiter)

\* std::accumulate(first, last, std::string{}, plus) over pieces[from..to]
RECURSIVE accumulate_pieces(_, _, _, _)
accumulate_pieces(pieces, from, to, acc) ==
    IF from > to THEN acc
    ELSE accumulate_pieces(pieces, from + 1, to, acc \o pieces[from])

----------------------------------------------------------------------------
(* evaluate() of every Statement subclass *)

RECURSIVE evaluate(_)

EmptyStatement_evaluate == <<>>

\* the lambda of BlockStatement::evaluate with "\n" added after every child
block_step_newline_always(acc, statement) ==
    acc \o evaluate(statement) \o <<"\n">>

\* the lambda BlockStatement::evaluate gives to std::accumulate
block_step(acc, statement) ==
    IF statement.kind = "Empty"
    THEN acc \o evaluate(statement)
    ELSE acc \o evaluate(statement) \o <<"\n">>

\* std::accumulate(m_block.begin(), m_block.end(), std::string{}, lambda)
RECURSIVE block_accumulate(_, _, _)
block_accumulate(block, i, acc) ==
    IF i > Len(block) THEN acc
    ELSE block_accumulate(block, i + 1, block_step(acc, block[i]))

BlockStatement_evaluate(self) == block_accumulate(self.m_block, 1, <<>>)

BlockStatement_empty(self) == self.m_block = <<>>

\* the include line with substr(1, size() - 1): only the first character dropped
include_line_keeps_last(c_include) ==
    <<"#", "i", "n", "c", "l", "u", "d", "e", " ", "<">>
        \o substr(c_include, 1, Len(c_include) - 1) \o <<">", "\n">>

\* fmt::format("#include <{}>\n", c_include.substr(1, c_include.size() - 2))
include_line(c_include) ==
    <<"#", "i", "n", "c", "l", "u", "d", "e", " ", "<">>
        \o substr(c_include, 1, Len(c_include) - 2) \o <<">", "\n">>

\* the loop over m_c_includes
RECURSIVE include_loop(_, _, _)
include_loop(c_includes, i, c_module_code) ==
    IF i > Len(c_includes) THEN c_module_code
    ELSE include_loop(c_includes, i + 1, c_module_code \o include_line(c_includes[i]))

ModuleStatement_evaluate(self) ==
    LET c1 == include_loop(self.m_c_includes, 1, <<>>)
        c2 == c1 \o <<"\n">>
        c3 == c2 \o BlockStatement_evaluate(self.m_structs)
        c4 == c3 \o <<"\n">>
    IN c4 \o BlockStatement_evaluate(self.m_functions)

\* the body of the loop over `arguments` in FunctionStatement::evaluate
function_argument(arguments, i, c_args) ==
    LET pieces == split_str(arguments[i], " ")
        is_mutable == IF pieces[1] = <<"m", "u", "t">> THEN 1 ELSE 0
        variable_type == pieces[1 + is_mutable]
        type_extensions ==
            accumulate_pieces(pieces, 2 + is_mutable, Len(pieces) - 1, <<>>)
        variable_name == pieces[Len(pieces)]
        a1 == c_args \o (IF is_mutable = 1 THEN <<>> ELSE <<"c", "o", "n", "s", "t", " ">>)
        a2 == a1 \o builtin_type_to_c_type(variable_type) \o type_extensions
                 \o <<" ">> \o variable_name
    IN IF i # Len(arguments) THEN a2 \o <<",", " ">> ELSE a2

RECURSIVE function_arguments(_, _, _)
function_arguments(arguments, i, c_args) ==
    IF i > Len(arguments) THEN c_args
    ELSE function_arguments(arguments, i + 1, function_argument(arguments, i, c_args))

FunctionStatement_evaluate(self) ==
    LET c_return_type == builtin_type_to_c_type(self.m_return_type)
        c_args == function_arguments(split_str(self.m_args, ","), 1, <<>>)
    IN c_return_type \o <<" ">> \o self.m_name \o <<"(">> \o c_args
           \o <<")", " ", "{", "\n">>
           \o BlockStatement_evaluate(self.m_body)
           \o <<"}", "\n">>

IfStatement_evaluate(self) ==
    LET c1 == <<"i", "f", " ", "(">> \o self.m_condition \o <<")", " ", "{", "\n">>
        c2 == c1 \o BlockStatement_evaluate(self.m_then_block)
        c3 == IF ~BlockStatement_empty(self.m_else_block)
              THEN c2 \o <<"}", " ", "e", "l", "s", "e", " ", "{", "\n">>
                      \o BlockStatement_evaluate(self.m_else_block)
              ELSE c2
    IN c3 \o <<"}", "\n">>

ReturnStatement_evaluate(self) ==
    <<"r", "e", "t", "u", "r", "n", " ">> \o self.m_expression \o <<";">>

VariableStatement_evaluate(self) ==
    LET mutability == IF self.m_is_mutable THEN <<>>
                      ELSE <<"c", "o", "n", "s", "t", " ">>
    IN mutability \o builtin_type_to_c_type(self.m_type) \o self.m_type_extensions
           \o <<" ">> \o self.m_name \o <<" ", "=", " ">> \o self.m_expression
           \o <<";">>

PlusEqualStatement_evaluate(self) ==
    self.m_name \o <<" ", "+", "=", " ">> \o self.m_expression \o <<";">>

WhileStatement_evaluate(self) ==
    <<"w", "h", "i", "l", "e", " ", "(">> \o self.m_condition
        \o <<")", " ", "{", "\n">>
        \o BlockStatement_evaluate(self.m_body)
        \o <<"}", "\n">>

ForStatement_evaluate(self) ==
    <<"f", "o", "r", " ", "(">> \o evaluate(self.m_init_statement) \o <<" ">>
        \o self.m_condition \o self.m_increment_statement
        \o <<")", " ", "{", "\n">>
        \o BlockStatement_evaluate(self.m_body)
        \o <<"}", "\n">>

ExpressionStatement_evaluate(self) == self.m_expression \o <<";">>

IndexOperatorStatement_evaluate(self) ==
    self.m_variable_name \o <<"[">> \o self.m_index \o <<"]", " ", "=", " ">>
        \o self.m_expression \o <<";">>

FunctionCallStatement_evaluate(self) ==
    self.m_name \o <<"(">> \o self.m_args \o <<")", ";">>

\* the loop over m_member_variables
RECURSIVE struct_members(_, _, _)
struct_members(member_variables, i, c_struct_code) ==
    IF i > Len(member_variables) THEN c_struct_code
    ELSE struct_members(member_variables, i + 1,
             c_struct_code \o <<" ", " ", " ", " ">> \o member_variables[i]
                 \o <<";", "\n">>)

StructStatement_evaluate(self) ==
    LET c1 == <<"t", "y", "p", "e", "d", "e", "f", " ",
                "s", "t", "r", "u", "c", "t", " ">> \o self.m_name
                  \o <<" ", "{", "\n">>
        c2 == struct_members(self.m_member_variables, 1, c1)
    IN c2 \o <<"}", " ">> \o self.m_name \o <<";", "\n">>

\* the virtual call statement->evaluate()
evaluate(statement) ==
    CASE statement.kind = "Empty" -> EmptyStatement_evaluate
      [] statement.kind = "Block" -> BlockStatement_evaluate(statement)
      [] statement.kind = "Module" -> ModuleStatement_evaluate(statement)
      [] statement.kind = "Function" -> FunctionStatement_evaluate(statement)
      [] statement.kind = "If" -> IfStatement_evaluate(statement)
      [] statement.kind = "Return" -> ReturnStatement_evaluate(statement)
      [] statement.kind = "Variable" -> VariableStatement_evaluate(statement)
      [] statement.kind = "PlusEqual" -> PlusEqualStatement_evaluate(statement)
      [] statement.kind = "While" -> WhileStatement_evaluate(statement)
      [] statement.kind = "For" -> ForStatement_evaluate(statement)
      [] statement.kind = "Expression" -> ExpressionStatement_evaluate(statement)
      [] statement.kind = "IndexOperator" -> IndexOperatorStatement_evaluate(statement)
      [] statement.kind = "FunctionCall" -> FunctionCallStatement_evaluate(statement)
      [] statement.kind = "Struct" -> StructStatement_evaluate(statement)

----------------------------------------------------------------------------
(* The statement trees the renderer is run on *)

\* longest Block given to BlockStatement::evaluate
MaxBlock == 2
\* most include directives of a Module
MaxIncludes == 2
\* most statements in a Module's structs Block and in its functions Block
MaxDecls == 1

SeqsUpTo(S, n) == UNION {[1..k -> S] : k \in 0..n}

Return0 == ReturnStatement(<<"0">>)
Return1 == ReturnStatement(<<"1">>)

\* the children of the Blocks: every variant, nested Blocks included
Children ==
    { EmptyStatement,
      Return0,
      ExpressionStatement(<<"x">>),
      PlusEqualStatement(<<"x">>, <<"1">>),
      VariableStatement(FALSE, <<"i", "3", "2">>, <<>>, <<"x">>, <<"4", "2">>),
      IndexOperatorStatement(<<"a">>, <<"0">>, <<"x">>),
      FunctionCallStatement(<<"f">>, <<"x">>),
      BlockStatement(<<>>),
      BlockStatement(<<EmptyStatement, Return0>>),
      WhileStatement(<<"x">>, BlockStatement(<<EmptyStatement>>)),
      IfStatement(<<"x">>, BlockStatement(<<Return1>>), BlockStatement(<<Return0>>)),
      IfStatement(<<"x">>, BlockStatement(<<Return1>>), BlockStatement(<<>>)),
      ForStatement(VariableStatement(TRUE, <<"i", "3", "2">>, <<>>, <<"i">>, <<"0">>),
                   <<"i", "<", "x", ";">>, <<"i", "+", "+">>,
                   BlockStatement(<<Return0>>)) }

Blocks == {BlockStatement(b) : b \in SeqsUpTo(Children, MaxBlock)}

\* include directives as the parser stores them: with their <> or ""
Directives == {<<"<", "a", ".", "h", ">">>, <<"\"", "b", "\"">>, <<"<", ">">>}

Structs ==
    { StructStatement(<<"S">>, <<>>),
      StructStatement(<<"P">>, << <<"i", "n", "t", " ", "x">>, <<"i", "n", "t", " ", "y">> >>) }

Functions ==
    { FunctionStatement(<<"m", "a", "i", "n">>, <<>>, <<"i", "3", "2">>,
                        BlockStatement(<<Return0>>)),
      FunctionStatement(<<"f">>, <<"i", "3", "2", " ", "x">>, <<"i", "3", "2">>,
                        BlockStatement(<<EmptyStatement>>)),
      FunctionStatement(<<"g">>,
                        <<"m", "u", "t", " ", "i", "3", "2", " ", "*", " ", "p", ",",
                          "i", "3", "2", " ", "n">>,
                        <<"i", "3", "2">>, BlockStatement(<<>>)) }

ModuleNames == {<<"m">>, <<"m", "a", "i", "n">>}

Modules ==
    { ModuleStatement(n, i, BlockStatement(s), BlockStatement(f)) :
        n \in ModuleNames, i \in SeqsUpTo(Directives, MaxIncludes),
        s \in SeqsUpTo(Structs, MaxDecls), f \in SeqsUpTo(Functions, MaxDecls) }

----------------------------------------------------------------------------
(* Rendering as a state machine: a tree is built, then evaluate() is called *)

LexIdle ==
    /\ source = <<>>
    /\ cursor = 0
    /\ has_errors = FALSE
    /\ tokens = <<>>
    /\ ret = NoToken
    /\ pc = "idle"

RenderInit ==
    /\ LexIdle
    /\ node \in Blocks \cup Modules
    /\ output = <<>>
    /\ rpc = "ready"

EvaluateBlock ==
    /\ rpc = "ready"
    /\ node.kind = "Block"
    /\ output' = BlockStatement_evaluate(node)
    /\ rpc' = "done"
    /\ UNCHANGED node
    /\ UNCHANGED lexVars

EvaluateModule ==
    /\ rpc = "ready"
    /\ node.kind = "Module"
    /\ output' = ModuleStatement_evaluate(node)
    /\ rpc' = "done"
    /\ UNCHANGED node
    /\ UNCHANGED lexVars

RenderNext == EvaluateBlock \/ EvaluateModule

RenderSpec == RenderInit /\ [][RenderNext]_vars

----------------------------------------------------------------------------
(* Vocabulary of the lexer claims *)

IsPrefix(p, q) == Len(p) <= Len(q) /\ SubSeq(q, 1, Len(p)) = p

WhitespaceChars == {" ", "\t", "\r", "\n"}
SwitchChars == {"(", ")", "-", "{", "}", "=", ";", "*", ",", "+", "<"}
IdentChar(ch) == ch \in Letters \cup Digits \cup {"_"}

\* the offset of the first character that is not whitespace, at or after c
FirstNonWhitespace(c) ==
    IF \E i \in c..(Len(source) - 1) : source[i + 1] \notin WhitespaceChars
    THEN CHOOSE i \in c..(Len(source) - 1) :
            /\ source[i + 1] \notin WhitespaceChars
            /\ \A j \in c..(i - 1) : source[j + 1] \in WhitespaceChars
    ELSE Len(source)

\* the character a next_token call at cursor c switches on
LeadingChar(c) ==
    IF FirstNonWhitespace(c) < Len(source)
    THEN source[FirstNonWhitespace(c) + 1]
    ELSE None

\* the character after the leading one
FollowingChar(c) ==
    IF FirstNonWhitespace(c) + 1 < Len(source)
    THEN source[FirstNonWhitespace(c) + 2]
    ELSE None

\* a step of Lexer::lex that is a next_token call made while the sink is clean
CleanCall == pc = "call" /\ pc' = "loop" /\ ~has_errors

\* the call goes to the identifier/keyword path
IdentifierPath(c) == LeadingChar(c) \notin SwitchChars \cup {None}

\* the tokens of the run in which no error is ever reported, from cursor c on
RECURSIVE ErrorFreeFrom(_, _)
ErrorFreeFrom(c, toks) ==
    IF eof(c) \/ Len(toks) >= MaxTokens THEN toks
    ELSE LET r == next_token(c, FALSE)
         IN ErrorFreeFrom(r.cursor, push_back(toks, r.token))

ErrorFreeTokens == ErrorFreeFrom(0, <<>>)

----------------------------------------------------------------------------
(* Claims about the lexer *)

\* C1: Lexer totality. For every source, Lexer::lex terminates: the loop
\* `while (!eof() && !has_errors())` eventually exits.
LexTerminates == <>(pc = "done")

\* C2: Unrecognized-character guard. A next_token call that reaches the
\* identifier/keyword path and finds a run of zero [A-Za-z0-9_] characters
\* reports to the sink (has_errors() becomes true) and advances the cursor by
\* exactly one byte.
UnrecognizedCharGuarded ==
    [][(CleanCall /\ IdentifierPath(cursor) /\ ~IdentChar(LeadingChar(cursor)))
         => (has_errors' /\ cursor' = FirstNonWhitespace(cursor) + 1)]_vars

\* C3: Positional monotonicity. In the token vector, at every moment of the
\* run, each token ends no later than the next one starts.
PositionalMonotonicity ==
    \A i \in 1..(Len(tokens) - 1) : tokens[i].end <= tokens[i + 1].start

\* C3 witness: a finished run whose vector holds a single-character token
\* directly followed by an identifier, and a two-character operator
PositionalMonotonicityWitness ==
    /\ pc = "done"
    /\ \E i \in 1..(Len(tokens) - 1) :
          /\ tokens[i].type = "LEFT_PAREN"
          /\ tokens[i + 1].type = "IDENTIFIER"
          /\ tokens[i].end = tokens[i + 1].start
    /\ \E i \in 1..(Len(tokens) - 1) :
          /\ tokens[i].type = "ARROW"
          /\ tokens[i + 1].type = "I32"

\* C4: Keyword priority with longest match. On the identifier/keyword path the
\* lexeme is the maximal run of [A-Za-z0-9_] at the cursor; the kind is
\* IDENTIFIER iff the lexeme is not in the keyword table, else the keyword's
\* kind, and never END_OF_FILE.
KeywordPriority ==
    [][(CleanCall /\ IdentifierPath(cursor))
         => LET first == FirstNonWhitespace(cursor)
            IN /\ ret'.start = first
               /\ ret'.end = cursor'
               /\ ret'.lexeme = SubSeq(source, first + 1, cursor')
               /\ \A i \in (first + 1)..cursor' : IdentChar(source[i])
               /\ cursor' < Len(source) => ~IdentChar(source[cursor' + 1])
               /\ (ret'.type = "IDENTIFIER") <=> (ret'.lexeme \notin Keywords)
               /\ ret'.lexeme = <<"m", "u", "t">> => ret'.type = "MUT"
               /\ ret'.lexeme = <<"i", "3", "2">> => ret'.type = "I32"
               /\ ret'.type # "END_OF_FILE"]_vars

\* C4 witness: "mut foo_bar mutation" lexed to the keyword, then two identifiers
KeywordPriorityWitness ==
    /\ pc = "done"
    /\ Len(tokens) = 3
    /\ tokens[1].type = "MUT"
    /\ tokens[2].type = "IDENTIFIER"
    /\ tokens[2].lexeme = <<"f", "o", "o", "_", "b", "a", "r">>
    /\ tokens[3].type = "IDENTIFIER"
    /\ tokens[3].lexeme = <<"m", "u", "t", "a", "t", "i", "o", "n">>

\* the kind and the length the one-character lookahead decides for `first`
\* followed by `following`
TwoCharKind(first, following) ==
    CASE first = "-" /\ following = ">" -> "ARROW"
      [] first = "-" /\ following = "-" -> "MINUS_MINUS"
      [] first = "=" /\ following = "=" -> "EQUAL_EQUAL"
      [] first = "+" /\ following = "=" -> "PLUS_EQUAL"
      [] first = "<" /\ following = "=" -> "LESS_EQUAL"
      [] OTHER -> "none"

OneCharKind(first) ==
    CASE first = "-" -> "MINUS"
      [] first = "=" -> "EQUAL"
      [] first = "+" -> "PLUS"
      [] first = "<" -> "LESS"

\* C5: Operator disambiguation by one-character lookahead. At a leading - = +
\* or < the lexer emits the two-character operator and advances 2 when the next
\* character completes one, else the one-character operator and advances 1
\* (also at the end of the input); the lexeme is the consumed characters.
OperatorLookahead ==
    [][(CleanCall /\ LeadingChar(cursor) \in {"-", "=", "+", "<"})
         => LET first == FirstNonWhitespace(cursor)
                two == TwoCharKind(LeadingChar(cursor), FollowingChar(cursor))
            IN /\ two # "none" => ret'.type = two /\ cursor' = first + 2
               /\ two = "none" => /\ ret'.type = OneCharKind(LeadingChar(cursor))
                                  /\ cursor' = first + 1
               /\ ret'.lexeme = SubSeq(source, first + 1, cursor')]_vars

\* C5 witness: a bare `-` lexed as MINUS at the very end of the input, after
\* an ARROW
OperatorLookaheadWitness ==
    /\ pc = "loop"
    /\ ret.type = "MINUS"
    /\ cursor = Len(source)
    /\ \E i \in 1..Len(tokens) : tokens[i].type = "ARROW"

\* C6: No sentinel in the output. The token vector never holds an END_OF_FILE
\* token or the dumb token.
NoSentinel ==
    \A i \in 1..Len(tokens) :
        tokens[i].type # "END_OF_FILE" /\ tokens[i] # create_dumb

\* C6 witness: a source ending in whitespace; the last next_token call skipped
\* it, returned the dumb token, and lex finished with the tokens before it
NoSentinelWitness ==
    /\ pc = "done"
    /\ ~has_errors
    /\ tokens # <<>>
    /\ source[Len(source)] \in WhitespaceChars
    /\ ret = create_dumb

\* C7: Error short-circuit. With has_errors() true, a next_token call returns
\* the dumb token and leaves the cursor where it is, the loop test ends lex,
\* and what lex returns is a prefix of the error-free run's tokens.
ErrorShortCircuit ==
    [][/\ (has_errors /\ pc = "call" /\ pc' = "loop")
            => (ret' = create_dumb /\ cursor' = cursor /\ tokens' = tokens)
       /\ (has_errors /\ pc = "loop" /\ pc' # "loop")
            => (pc' = "done" /\ cursor' = cursor /\ tokens' = tokens)
       /\ pc' = "done" => IsPrefix(tokens', ErrorFreeTokens)]_vars

\* C7 witness: lex ended by an error before the end of the source, after a
\* next_token call that returned the dumb token in front of a character
ErrorShortCircuitWitness ==
    /\ pc = "done"
    /\ has_errors
    /\ ret = create_dumb
    /\ tokens # <<>>
    /\ ~eof(cursor)
    /\ peek(cursor) \notin WhitespaceChars
    /\ Len(tokens) < Len(ErrorFreeTokens)

\* C10: Token position covers its lexeme. For every token of the vector,
\* [start, end) are the offsets of the lexeme in the source.
PositionCoversLexeme ==
    \A i \in 1..Len(tokens) :
        /\ tokens[i].end - tokens[i].start = Len(tokens[i].lexeme)
        /\ tokens[i].end <= Len(source)
        /\ SubSeq(source, tokens[i].start + 1, tokens[i].end) = tokens[i].lexeme

----------------------------------------------------------------------------
(* Claims about the statement tree *)

\* the strings of `parts`, one after the other
RECURSIVE Concatenation(_)
Concatenation(parts) ==
    IF parts = <<>> THEN <<>> ELSE Head(parts) \o Concatenation(Tail(parts))

\* what a child contributes to its Block: its render, then "\n" unless it is Empty
ChildPart(statement) ==
    IF statement.kind = "Empty" THEN evaluate(statement)
    ELSE evaluate(statement) \o <<"\n">>

\* a directive without its first and its last character
Inner(directive) == [i \in 1..(Len(directive) - 2) |-> directive[i + 1]]

IncludePart(directive) ==
    <<"#", "i", "n", "c", "l", "u", "d", "e", " ", "<">> \o Inner(directive)
        \o <<">", "\n">>

\* C8: Block composition. BlockStatement::evaluate is the in-order
\* concatenation of the children's evaluate() results, with one "\n" after each
\* child that is not Empty and nothing after an Empty child; an empty Block
\* evaluates to the empty string.
BlockComposition ==
    (rpc = "done" /\ node.kind = "Block")
        => /\ output = Concatenation([i \in 1..Len(node.m_block) |->
                                         ChildPart(node.m_block[i])])
           /\ node.m_block = <<>> => output = <<>>

\* C8 witness: a rendered Block with an Empty child in front of a Return
BlockCompositionWitness ==
    /\ rpc = "done"
    /\ node.kind = "Block"
    /\ node.m_block = <<EmptyStatement, Return0>>
    /\ output = <<"r", "e", "t", "u", "r", "n", " ", "0", ";", "\n">>

\* C9: Module well-formedness. ModuleStatement::evaluate is one line
\* `#include <INNER>\n` per directive in list order, then "\n", then the
\* structs Block's render, then "\n", then the functions Block's render, and
\* it is the same whatever the module's name.
ModuleWellFormed ==
    (rpc = "done" /\ node.kind = "Module")
        => /\ output =
                Concatenation([i \in 1..Len(node.m_c_includes) |->
                                  IncludePart(node.m_c_includes[i])])
                    \o <<"\n">> \o BlockStatement_evaluate(node.m_structs)
                    \o <<"\n">> \o BlockStatement_evaluate(node.m_functions)
           /\ \A name \in ModuleNames :
                ModuleStatement_evaluate([node EXCEPT !.m_name = name]) = output

\* C9 witness: a rendered Module with a <...> and a "..." directive, a struct
\* and a function
ModuleWellFormedWitness ==
    /\ rpc = "done"
    /\ node.kind = "Module"
    /\ Len(node.m_c_includes) = 2
    /\ node.m_c_includes[1][1] = "<"
    /\ node.m_c_includes[2][1] = "\""
    /\ node.m_structs.m_block # <<>>
    /\ node.m_functions.m_block # <<>>
    /\ Len(output) > 0

=============================================================================
